---- MODULE Spec2Model ----
(***************************************************************************)
(* grafana-data datetime/rangeutil.ts: the preset catalog and its index,   *)
(* the relative-expression describer, the interval parser and rounder,     *)
(* the duration formatters and the range <-> relative conversion.          *)
(*                                                                         *)
(* Strings are sequences of one-character strings, so that indexOf, the    *)
(* regular expressions, parseInt and the concatenations are computed       *)
(* character by character as the code does.                                *)
(***************************************************************************)
EXTENDS Integers, Sequences, FiniteSets, TLC

VARIABLES
  pc,          \* module-load position: "rangeOptions", "hiddenRangeOptions", "ready"
  i,           \* index of the next frame the running each(...) visits
  rangeIndex,  \* const rangeIndex: Record<string, TimeOption> (line 81)
  op,          \* the exported function called last ("none" before any call)
  arg,         \* its arguments
  res          \* its outcome: Return(value) or Throw(message)

vars == <<pc, i, rangeIndex, op, arg, res>>

\* The element of a one-element set.  {F(v) : v \in {e}} evaluates e once and
\* hands F its value, as a JavaScript call or assignment does.
The(S) == CHOOSE x \in S : TRUE

\* ---------------------------------------------------------------- strings

\* String.prototype.indexOf(sub), 0-based; -1 when sub does not occur.
IndexOf(str, sub) ==
  LET starts == {k \in 1..(Len(str) - Len(sub) + 1) :
                    SubSeq(str, k, k + Len(sub) - 1) = sub}
  IN  IF starts = {} THEN -1
      ELSE (CHOOSE k \in starts : \A j \in starts : k <= j) - 1

DigitChars == <<"0", "1", "2", "3", "4", "5", "6", "7", "8", "9">>

IsDigit(c) == \E k \in 1..10 : DigitChars[k] = c

DigitValue(c) == (CHOOSE k \in 1..10 : DigitChars[k] = c) - 1

\* The regular expression class \w: [A-Za-z0-9_].
WordChars ==
  {"a", "b", "c", "d", "e", "f", "g", "h", "i", "j", "k", "l", "m",
   "n", "o", "p", "q", "r", "s", "t", "u", "v", "w", "x", "y", "z",
   "A", "B", "C", "D", "E", "F", "G", "H", "I", "J", "K", "L", "M",
   "N", "O", "P", "Q", "R", "S", "T", "U", "V", "W", "X", "Y", "Z",
   "0", "1", "2", "3", "4", "5", "6", "7", "8", "9", "_"}

IsWord(c) == c \in WordChars

\* The value of a run of decimal digits.
RECURSIVE DigitsToNat(_)
DigitsToNat(ds) ==
  IF ds = <<>> THEN 0
  ELSE 10 * DigitsToNat(SubSeq(ds, 1, Len(ds) - 1)) + DigitValue(ds[Len(ds)])

\* Number -> string conversion of a non-negative integer (n + 'y', amount + ' ').
RECURSIVE NatToString(_)
NatToString(n) ==
  IF n < 10 THEN <<DigitChars[n + 1]>>
  ELSE NatToString(n \div 10) \o <<DigitChars[(n % 10) + 1]>>

\* The number of leading decimal digits of str from position k (1-based).
RECURSIVE DigitRun(_, _)
DigitRun(str, k) ==
  IF k <= Len(str) /\ IsDigit(str[k]) THEN 1 + DigitRun(str, k + 1) ELSE 0

\* ---------------------------------------------------------------- tables

\* const spans (lines 10-18): unit -> display name; no span has a section.
spans ==
  [u \in {"s", "m", "h", "d", "w", "M", "y"} |->
     CASE u = "s" -> [display |-> <<"s", "e", "g", "u", "n", "d", "o">>]
       [] u = "m" -> [display |-> <<"m", "i", "n", "u", "t", "o">>]
       [] u = "h" -> [display |-> <<"h", "o", "r", "a">>]
       [] u = "d" -> [display |-> <<"d", "i", "a">>]
       [] u = "w" -> [display |-> <<"s", "e", "m", "a", "n", "a">>]
       [] u = "M" -> [display |-> <<"m", "ê", "s">>]
       [] u = "y" -> [display |-> <<"a", "n", "o">>]]

rangeOptions ==
  <<
    \* line 21: { from: 'now/d', to: 'now/d', display: 'Hoje' }
    [from |-> <<"n", "o", "w", "/", "d">>,
     to |-> <<"n", "o", "w", "/", "d">>,
     display |-> <<"H", "o", "j", "e">>],
    \* line 22: { from: 'now/d', to: 'now', display: 'Hoje até agora' }
    [from |-> <<"n", "o", "w", "/", "d">>,
     to |-> <<"n", "o", "w">>,
     display |-> <<"H", "o", "j", "e", " ", "a", "t", "é", " ", "a", "g", "o", "r", "a">>],
    \* line 23: { from: 'now/w', to: 'now/w', display: 'Esta semana' }
    [from |-> <<"n", "o", "w", "/", "w">>,
     to |-> <<"n", "o", "w", "/", "w">>,
     display |-> <<"E", "s", "t", "a", " ", "s", "e", "m", "a", "n", "a">>],
    \* line 24: { from: 'now/w', to: 'now', display: 'Esta semana até agora' }
    [from |-> <<"n", "o", "w", "/", "w">>,
     to |-> <<"n", "o", "w">>,
     display |-> <<"E", "s", "t", "a", " ", "s", "e", "m", "a", "n", "a", " ", "a", "t", "é", " ", "a", "g", "o", "r", "a">>],
    \* line 25: { from: 'now/M', to: 'now/M', display: 'Este mês' }
    [from |-> <<"n", "o", "w", "/", "M">>,
     to |-> <<"n", "o", "w", "/", "M">>,
     display |-> <<"E", "s", "t", "e", " ", "m", "ê", "s">>],
    \* line 26: { from: 'now/M', to: 'now', display: 'Este mês até agora' }
    [from |-> <<"n", "o", "w", "/", "M">>,
     to |-> <<"n", "o", "w">>,
     display |-> <<"E", "s", "t", "e", " ", "m", "ê", "s", " ", "a", "t", "é", " ", "a", "g", "o", "r", "a">>],
    \* line 27: { from: 'now/y', to: 'now/y', display: 'Este ano' }
    [from |-> <<"n", "o", "w", "/", "y">>,
     to |-> <<"n", "o", "w", "/", "y">>,
     display |-> <<"E", "s", "t", "e", " ", "a", "n", "o">>],
    \* line 28: { from: 'now/y', to: 'now', display: 'Este ano até agora' }
    [from |-> <<"n", "o", "w", "/", "y">>,
     to |-> <<"n", "o", "w">>,
     display |-> <<"E", "s", "t", "e", " ", "a", "n", "o", " ", "a", "t", "é", " ", "a", "g", "o", "r", "a">>],
    \* line 30: { from: 'now-1d/d', to: 'now-1d/d', display: 'Ontem' }
    [from |-> <<"n", "o", "w", "-", "1", "d", "/", "d">>,
     to |-> <<"n", "o", "w", "-", "1", "d", "/", "d">>,
     display |-> <<"O", "n", "t", "e", "m">>],
    \* line 31: { from: 'now-2d/d', to: 'now-2d/d', display: 'Anteontem' }
    [from |-> <<"n", "o", "w", "-", "2", "d", "/", "d">>,
     to |-> <<"n", "o", "w", "-", "2", "d", "/", "d">>,
     display |-> <<"A", "n", "t", "e", "o", "n", "t", "e", "m">>],
    \* line 32: { from: 'now-7d/d', to: 'now-7d/d', display: 'Este dia na semana passada' }
    [from |-> <<"n", "o", "w", "-", "7", "d", "/", "d">>,
     to |-> <<"n", "o", "w", "-", "7", "d", "/", "d">>,
     display |-> <<"E", "s", "t", "e", " ", "d", "i", "a", " ", "n", "a", " ", "s", "e", "m", "a", "n", "a", " ", "p", "a", "s", "s", "a", "d", "a">>],
    \* line 33: { from: 'now-1w/w', to: 'now-1w/w', display: 'Semana anterior' }
    [from |-> <<"n", "o", "w", "-", "1", "w", "/", "w">>,
     to |-> <<"n", "o", "w", "-", "1", "w", "/", "w">>,
     display |-> <<"S", "e", "m", "a", "n", "a", " ", "a", "n", "t", "e", "r", "i", "o", "r">>],
    \* line 34: { from: 'now-1M/M', to: 'now-1M/M', display: 'Mês anterior' }
    [from |-> <<"n", "o", "w", "-", "1", "M", "/", "M">>,
     to |-> <<"n", "o", "w", "-", "1", "M", "/", "M">>,
     display |-> <<"M", "ê", "s", " ", "a", "n", "t", "e", "r", "i", "o", "r">>],
    \* line 35: { from: 'now-1Q/fQ', to: 'now-1Q/fQ', display: 'Trimestre fiscal anterior' }
    [from |-> <<"n", "o", "w", "-", "1", "Q", "/", "f", "Q">>,
     to |-> <<"n", "o", "w", "-", "1", "Q", "/", "f", "Q">>,
     display |-> <<"T", "r", "i", "m", "e", "s", "t", "r", "e", " ", "f", "i", "s", "c", "a", "l", " ", "a", "n", "t", "e", "r", "i", "o", "r">>],
    \* line 36: { from: 'now-1y/y', to: 'now-1y/y', display: 'Ano anterior' }
    [from |-> <<"n", "o", "w", "-", "1", "y", "/", "y">>,
     to |-> <<"n", "o", "w", "-", "1", "y", "/", "y">>,
     display |-> <<"A", "n", "o", " ", "a", "n", "t", "e", "r", "i", "o", "r">>],
    \* line 37: { from: 'now-1y/fy', to: 'now-1y/fy', display: 'Ano fiscal anterior' }
    [from |-> <<"n", "o", "w", "-", "1", "y", "/", "f", "y">>,
     to |-> <<"n", "o", "w", "-", "1", "y", "/", "f", "y">>,
     display |-> <<"A", "n", "o", " ", "f", "i", "s", "c", "a", "l", " ", "a", "n", "t", "e", "r", "i", "o", "r">>],
    \* line 39: { from: 'now-5m', to: 'now', display: 'Últimos 5 minutos' }
    [from |-> <<"n", "o", "w", "-", "5", "m">>,
     to |-> <<"n", "o", "w">>,
     display |-> <<"Ú", "l", "t", "i", "m", "o", "s", " ", "5", " ", "m", "i", "n", "u", "t", "o", "s">>],
    \* line 40: { from: 'now-15m', to: 'now', display: 'Últimos 15 minutos' }
    [from |-> <<"n", "o", "w", "-", "1", "5", "m">>,
     to |-> <<"n", "o", "w">>,
     display |-> <<"Ú", "l", "t", "i", "m", "o", "s", " ", "1", "5", " ", "m", "i", "n", "u", "t", "o", "s">>],
    \* line 41: { from: 'now-30m', to: 'now', display: 'Últimos 30 minutos' }
    [from |-> <<"n", "o", "w", "-", "3", "0", "m">>,
     to |-> <<"n", "o", "w">>,
     display |-> <<"Ú", "l", "t", "i", "m", "o", "s", " ", "3", "0", " ", "m", "i", "n", "u", "t", "o", "s">>],
    \* line 42: { from: 'now-1h', to: 'now', display: 'Última 1 hora' }
    [from |-> <<"n", "o", "w", "-", "1", "h">>,
     to |-> <<"n", "o", "w">>,
     display |-> <<"Ú", "l", "t", "i", "m", "a", " ", "1", " ", "h", "o", "r", "a">>],
    \* line 43: { from: 'now-3h', to: 'now', display: 'Últimas 3 horas' }
    [from |-> <<"n", "o", "w", "-", "3", "h">>,
     to |-> <<"n", "o", "w">>,
     display |-> <<"Ú", "l", "t", "i", "m", "a", "s", " ", "3", " ", "h", "o", "r", "a", "s">>],
    \* line 44: { from: 'now-6h', to: 'now', display: 'Últimas 6 horas' }
    [from |-> <<"n", "o", "w", "-", "6", "h">>,
     to |-> <<"n", "o", "w">>,
     display |-> <<"Ú", "l", "t", "i", "m", "a", "s", " ", "6", " ", "h", "o", "r", "a", "s">>],
    \* line 45: { from: 'now-12h', to: 'now', display: 'Últimas 12 horas' }
    [from |-> <<"n", "o", "w", "-", "1", "2", "h">>,
     to |-> <<"n", "o", "w">>,
     display |-> <<"Ú", "l", "t", "i", "m", "a", "s", " ", "1", "2", " ", "h", "o", "r", "a", "s">>],
    \* line 46: { from: 'now-24h', to: 'now', display: 'Últimas 24 horas' }
    [from |-> <<"n", "o", "w", "-", "2", "4", "h">>,
     to |-> <<"n", "o", "w">>,
     display |-> <<"Ú", "l", "t", "i", "m", "a", "s", " ", "2", "4", " ", "h", "o", "r", "a", "s">>],
    \* line 47: { from: 'now-2d', to: 'now', display: 'Últimos 2 dias' }
    [from |-> <<"n", "o", "w", "-", "2", "d">>,
     to |-> <<"n", "o", "w">>,
     display |-> <<"Ú", "l", "t", "i", "m", "o", "s", " ", "2", " ", "d", "i", "a", "s">>],
    \* line 48: { from: 'now-7d', to: 'now', display: 'Últimos 7 dias' }
    [from |-> <<"n", "o", "w", "-", "7", "d">>,
     to |-> <<"n", "o", "w">>,
     display |-> <<"Ú", "l", "t", "i", "m", "o", "s", " ", "7", " ", "d", "i", "a", "s">>],
    \* line 49: { from: 'now-30d', to: 'now', display: 'Últimos 30 dias' }
    [from |-> <<"n", "o", "w", "-", "3", "0", "d">>,
     to |-> <<"n", "o", "w">>,
     display |-> <<"Ú", "l", "t", "i", "m", "o", "s", " ", "3", "0", " ", "d", "i", "a", "s">>],
    \* line 50: { from: 'now-90d', to: 'now', display: 'Últimos 90 dias' }
    [from |-> <<"n", "o", "w", "-", "9", "0", "d">>,
     to |-> <<"n", "o", "w">>,
     display |-> <<"Ú", "l", "t", "i", "m", "o", "s", " ", "9", "0", " ", "d", "i", "a", "s">>],
    \* line 51: { from: 'now-6M', to: 'now', display: 'Últimos 6 meses' }
    [from |-> <<"n", "o", "w", "-", "6", "M">>,
     to |-> <<"n", "o", "w">>,
     display |-> <<"Ú", "l", "t", "i", "m", "o", "s", " ", "6", " ", "m", "e", "s", "e", "s">>],
    \* line 52: { from: 'now-1y', to: 'now', display: 'Último 1 ano' }
    [from |-> <<"n", "o", "w", "-", "1", "y">>,
     to |-> <<"n", "o", "w">>,
     display |-> <<"Ú", "l", "t", "i", "m", "o", " ", "1", " ", "a", "n", "o">>],
    \* line 53: { from: 'now-2y', to: 'now', display: 'Últimos 2 anos' }
    [from |-> <<"n", "o", "w", "-", "2", "y">>,
     to |-> <<"n", "o", "w">>,
     display |-> <<"Ú", "l", "t", "i", "m", "o", "s", " ", "2", " ", "a", "n", "o", "s">>],
    \* line 54: { from: 'now-5y', to: 'now', display: 'Últimos 5 anos' }
    [from |-> <<"n", "o", "w", "-", "5", "y">>,
     to |-> <<"n", "o", "w">>,
     display |-> <<"Ú", "l", "t", "i", "m", "o", "s", " ", "5", " ", "a", "n", "o", "s">>],
    \* line 55: { from: 'now/fQ', to: 'now', display: 'Este trimestre fiscal até agora' }
    [from |-> <<"n", "o", "w", "/", "f", "Q">>,
     to |-> <<"n", "o", "w">>,
     display |-> <<"E", "s", "t", "e", " ", "t", "r", "i", "m", "e", "s", "t", "r", "e", " ", "f", "i", "s", "c", "a", "l", " ", "a", "t", "é", " ", "a", "g", "o", "r", "a">>],
    \* line 56: { from: 'now/fQ', to: 'now/fQ', display: 'Este trimestre fiscal' }
    [from |-> <<"n", "o", "w", "/", "f", "Q">>,
     to |-> <<"n", "o", "w", "/", "f", "Q">>,
     display |-> <<"E", "s", "t", "e", " ", "t", "r", "i", "m", "e", "s", "t", "r", "e", " ", "f", "i", "s", "c", "a", "l">>],
    \* line 57: { from: 'now/fy', to: 'now', display: 'Este ano fiscal até agora' }
    [from |-> <<"n", "o", "w", "/", "f", "y">>,
     to |-> <<"n", "o", "w">>,
     display |-> <<"E", "s", "t", "e", " ", "a", "n", "o", " ", "f", "i", "s", "c", "a", "l", " ", "a", "t", "é", " ", "a", "g", "o", "r", "a">>],
    \* line 58: { from: 'now/fy', to: 'now/fy', display: 'Este ano fiscal' }
    [from |-> <<"n", "o", "w", "/", "f", "y">>,
     to |-> <<"n", "o", "w", "/", "f", "y">>,
     display |-> <<"E", "s", "t", "e", " ", "a", "n", "o", " ", "f", "i", "s", "c", "a", "l">>]
  >>

hiddenRangeOptions ==
  <<
    \* line 62: { from: 'now', to: 'now+1m', display: 'Próximo minuto' }
    [from |-> <<"n", "o", "w">>,
     to |-> <<"n", "o", "w", "+", "1", "m">>,
     display |-> <<"P", "r", "ó", "x", "i", "m", "o", " ", "m", "i", "n", "u", "t", "o">>],
    \* line 63: { from: 'now', to: 'now+5m', display: 'Próximos 5 minutos' }
    [from |-> <<"n", "o", "w">>,
     to |-> <<"n", "o", "w", "+", "5", "m">>,
     display |-> <<"P", "r", "ó", "x", "i", "m", "o", "s", " ", "5", " ", "m", "i", "n", "u", "t", "o", "s">>],
    \* line 64: { from: 'now', to: 'now+15m', display: 'Próximos 15 minutos' }
    [from |-> <<"n", "o", "w">>,
     to |-> <<"n", "o", "w", "+", "1", "5", "m">>,
     display |-> <<"P", "r", "ó", "x", "i", "m", "o", "s", " ", "1", "5", " ", "m", "i", "n", "u", "t", "o", "s">>],
    \* line 65: { from: 'now', to: 'now+30m', display: 'Próximos 30 minutos' }
    [from |-> <<"n", "o", "w">>,
     to |-> <<"n", "o", "w", "+", "3", "0", "m">>,
     display |-> <<"P", "r", "ó", "x", "i", "m", "o", "s", " ", "3", "0", " ", "m", "i", "n", "u", "t", "o", "s">>],
    \* line 66: { from: 'now', to: 'now+1h', display: 'Próxima hora' }
    [from |-> <<"n", "o", "w">>,
     to |-> <<"n", "o", "w", "+", "1", "h">>,
     display |-> <<"P", "r", "ó", "x", "i", "m", "a", " ", "h", "o", "r", "a">>],
    \* line 67: { from: 'now', to: 'now+3h', display: 'Próximas 3 horas' }
    [from |-> <<"n", "o", "w">>,
     to |-> <<"n", "o", "w", "+", "3", "h">>,
     display |-> <<"P", "r", "ó", "x", "i", "m", "a", "s", " ", "3", " ", "h", "o", "r", "a", "s">>],
    \* line 68: { from: 'now', to: 'now+6h', display: 'Próximas 6 horas' }
    [from |-> <<"n", "o", "w">>,
     to |-> <<"n", "o", "w", "+", "6", "h">>,
     display |-> <<"P", "r", "ó", "x", "i", "m", "a", "s", " ", "6", " ", "h", "o", "r", "a", "s">>],
    \* line 69: { from: 'now', to: 'now+12h', display: 'Próximas 12 horas' }
    [from |-> <<"n", "o", "w">>,
     to |-> <<"n", "o", "w", "+", "1", "2", "h">>,
     display |-> <<"P", "r", "ó", "x", "i", "m", "a", "s", " ", "1", "2", " ", "h", "o", "r", "a", "s">>],
    \* line 70: { from: 'now', to: 'now+24h', display: 'Próximas 24 horas' }
    [from |-> <<"n", "o", "w">>,
     to |-> <<"n", "o", "w", "+", "2", "4", "h">>,
     display |-> <<"P", "r", "ó", "x", "i", "m", "a", "s", " ", "2", "4", " ", "h", "o", "r", "a", "s">>],
    \* line 71: { from: 'now', to: 'now+2d', display: 'Próximos 2 dias' }
    [from |-> <<"n", "o", "w">>,
     to |-> <<"n", "o", "w", "+", "2", "d">>,
     display |-> <<"P", "r", "ó", "x", "i", "m", "o", "s", " ", "2", " ", "d", "i", "a", "s">>],
    \* line 72: { from: 'now', to: 'now+7d', display: 'Próximos 7 dias' }
    [from |-> <<"n", "o", "w">>,
     to |-> <<"n", "o", "w", "+", "7", "d">>,
     display |-> <<"P", "r", "ó", "x", "i", "m", "o", "s", " ", "7", " ", "d", "i", "a", "s">>],
    \* line 73: { from: 'now', to: 'now+30d', display: 'Próximos 30 dias' }
    [from |-> <<"n", "o", "w">>,
     to |-> <<"n", "o", "w", "+", "3", "0", "d">>,
     display |-> <<"P", "r", "ó", "x", "i", "m", "o", "s", " ", "3", "0", " ", "d", "i", "a", "s">>],
    \* line 74: { from: 'now', to: 'now+90d', display: 'Próximos 90 dias' }
    [from |-> <<"n", "o", "w">>,
     to |-> <<"n", "o", "w", "+", "9", "0", "d">>,
     display |-> <<"P", "r", "ó", "x", "i", "m", "o", "s", " ", "9", "0", " ", "d", "i", "a", "s">>],
    \* line 75: { from: 'now', to: 'now+6M', display: 'Próximos 6 meses' }
    [from |-> <<"n", "o", "w">>,
     to |-> <<"n", "o", "w", "+", "6", "M">>,
     display |-> <<"P", "r", "ó", "x", "i", "m", "o", "s", " ", "6", " ", "m", "e", "s", "e", "s">>],
    \* line 76: { from: 'now', to: 'now+1y', display: 'Próximo ano' }
    [from |-> <<"n", "o", "w">>,
     to |-> <<"n", "o", "w", "+", "1", "y">>,
     display |-> <<"P", "r", "ó", "x", "i", "m", "o", " ", "a", "n", "o">>],
    \* line 77: { from: 'now', to: 'now+2y', display: 'Próximos 2 anos' }
    [from |-> <<"n", "o", "w">>,
     to |-> <<"n", "o", "w", "+", "2", "y">>,
     display |-> <<"P", "r", "ó", "x", "i", "m", "o", "s", " ", "2", " ", "a", "n", "o", "s">>],
    \* line 78: { from: 'now', to: 'now+5y', display: 'Próximos 5 anos' }
    [from |-> <<"n", "o", "w">>,
     to |-> <<"n", "o", "w", "+", "5", "y">>,
     display |-> <<"P", "r", "ó", "x", "i", "m", "o", "s", " ", "5", " ", "a", "n", "o", "s">>]
  >>

\* frame.from + ' to ' + frame.to (lines 83, 86, 126, 146)
RangeKey(from, to) == from \o <<" ", "t", "o", " ">> \o to

\* Mutant of IndexPut: the key is frame.from alone.
IndexPut_keyFrom(index, frame) ==
  LET key == frame.from
  IN  [k \in (DOMAIN index) \cup {key} |-> IF k = key THEN frame ELSE index[k]]

\* rangeIndex[frame.from + ' to ' + frame.to] = frame (lines 83, 86): an
\* assignment, so a frame with a key already present replaces the earlier one.
IndexPut(index, frame) ==
  LET key == RangeKey(frame.from, frame.to)
  IN  [k \in (DOMAIN index) \cup {key} |-> IF k = key THEN frame ELSE index[k]]

\* ---------------------------------------------------------------- outcomes

\* A call either returns a value or throws (throw new Error(...)).
Return(v) == [threw |-> FALSE, value |-> v]

Throw(msg) == [threw |-> TRUE, message |-> msg]

\* ---------------------------------------------------------------- describeTextRange

NowStr == <<"n", "o", "w">>

\* /^now([-+])(\d+)(\w)/.exec(expr) (line 112): anchored at the start only.
\* \d+ is greedy; when the character after the digit run is not a \w, the
\* engine backtracks one digit, which \w then matches.  parts[2] = digits,
\* parts[3] = unit; matched = FALSE stands for the null result.
NowRegexExec(expr) ==
  LET n == DigitRun(expr, 5)
  IN  IF /\ Len(expr) >= 6
         /\ SubSeq(expr, 1, 3) = NowStr
         /\ expr[4] \in {"-", "+"}
         /\ n >= 1
      THEN IF 5 + n <= Len(expr) /\ IsWord(expr[5 + n])
             THEN [matched |-> TRUE, sign |-> expr[4],
                   digits |-> SubSeq(expr, 5, 4 + n), unit |-> expr[5 + n]]
           ELSE IF n >= 2
             THEN [matched |-> TRUE, sign |-> expr[4],
                   digits |-> SubSeq(expr, 5, 3 + n), unit |-> expr[4 + n]]
           ELSE [matched |-> FALSE]
      ELSE [matched |-> FALSE]

\* export function describeTextRange(expr) (lines 95-131).  A TimeOption is a
\* record; the optional fields section and invalid are present only once
\* assigned (opt.section = span.section assigns undefined: no span has one).
describeTextRange(expr0) ==
  LET isLast == IndexOf(expr0, <<"+">>) # 0
      expr == IF IndexOf(expr0, NowStr) = -1
                THEN (IF isLast THEN <<"n", "o", "w", "-">> ELSE NowStr) \o expr0
                ELSE expr0
      key == expr \o <<" ", "t", "o", " ", "n", "o", "w">>
      opt == IF isLast
               THEN [from |-> expr, to |-> NowStr, display |-> <<>>]
               ELSE [from |-> NowStr, to |-> expr, display |-> <<>>]
      parts == NowRegexExec(expr)
  IN  IF key \in DOMAIN rangeIndex THEN rangeIndex[key]
      ELSE IF parts.matched
        THEN LET unit == parts.unit
                 amount == DigitsToNat(parts.digits)
             IN  IF unit \in DOMAIN spans
                   THEN [from |-> opt.from, to |-> opt.to,
                         display |->
                           (IF isLast THEN <<"L", "a", "s", "t", " ">> ELSE <<"N", "e", "x", "t", " ">>)
                             \o NatToString(amount) \o <<" ">> \o spans[unit].display
                             \o (IF amount > 1 THEN <<"s">> ELSE <<>>),
                         section |-> "undefined"]
                   ELSE opt
        ELSE [from |-> opt.from, to |-> opt.to,
              display |-> RangeKey(opt.from, opt.to),
              invalid |-> TRUE]

\* info.invalid (line 182): undefined unless describeTextRange set it.
InvalidOf(opt) == IF "invalid" \in DOMAIN opt THEN opt.invalid ELSE FALSE

\* export function describeTimeRange(range, timeZone) (lines 145-174) for a
\* RawTimeRange whose from and to are both strings: isDateTime(...) is false
\* on lines 154, 158 and 163, so none of the formatter branches is taken.
describeTimeRange(range) ==
  LET key == RangeKey(range.from, range.to)
  IN  IF key \in DOMAIN rangeIndex THEN rangeIndex[key].display
      ELSE IF range.to = NowStr THEN describeTextRange(range.from).display
      ELSE RangeKey(range.from, range.to)

\* export const isValidTimeSpan = (value) => ... (lines 176-183)
isValidTimeSpan(value) ==
  IF IndexOf(value, <<"$">>) = 0 \/ IndexOf(value, <<"+", "$">>) = 0
    THEN TRUE
    ELSE InvalidOf(describeTextRange(value)) # TRUE

\* ---------------------------------------------------------------- numbers
\* A millisecond quantity is a JavaScript number, exact far beyond 32 bits
\* (1 year is 31536000000 ms).  N(k, u) stands for k * 1000 + u milliseconds,
\* 0 <= u < 1000, k of either sign (floor convention: -1 ms is N(-1, 999)).
N(k, u) == [k |-> k, u |-> u]

\* a < b on millisecond quantities
Less(a, b) == a.k < b.k \/ (a.k = b.k /\ a.u < b.u)

\* a - b on millisecond quantities
Minus(a, b) ==
  IF a.u >= b.u THEN N(a.k - b.k, a.u - b.u) ELSE N(a.k - b.k - 1, a.u + 1000 - b.u)

\* Math.floor(a / n) for an integer n >= 1.  The quotient a / n itself is a
\* real number; roundInterval only compares it with integers, and x < T
\* holds of a real x and an integer T exactly when floor(x) < T.
QuotientFloor(a, n) ==
  LET rest == ((a.k % n) * 1000 + a.u) \div n
  IN  N((a.k \div n) + (rest \div 1000), rest % 1000)

\* A duration in seconds with a fraction: s + us / 1000000 seconds,
\* 0 <= us < 1000000.
Seconds(s, us) == [s |-> s, us |-> us]

\* ms / 1000 (line 290)
MsToSeconds(ms) == Seconds(ms.k, ms.u * 1000)

\* ---------------------------------------------------------------- roundInterval

\* Mutant of roundInterval: every comparison is <= instead of <.
roundInterval_inclusive(interval) ==
  IF ~Less(N(0, 10), interval) THEN N(0, 1)
  ELSE IF ~Less(N(0, 15), interval) THEN N(0, 10)
  ELSE IF ~Less(N(0, 35), interval) THEN N(0, 20)
  ELSE IF ~Less(N(0, 75), interval) THEN N(0, 50)
  ELSE IF ~Less(N(0, 150), interval) THEN N(0, 100)
  ELSE IF ~Less(N(0, 350), interval) THEN N(0, 200)
  ELSE IF ~Less(N(0, 750), interval) THEN N(0, 500)
  ELSE IF ~Less(N(1, 500), interval) THEN N(1, 0)
  ELSE IF ~Less(N(3, 500), interval) THEN N(2, 0)
  ELSE IF ~Less(N(7, 500), interval) THEN N(5, 0)
  ELSE IF ~Less(N(12, 500), interval) THEN N(10, 0)
  ELSE IF ~Less(N(17, 500), interval) THEN N(15, 0)
  ELSE IF ~Less(N(25, 0), interval) THEN N(20, 0)
  ELSE IF ~Less(N(45, 0), interval) THEN N(30, 0)
  ELSE IF ~Less(N(90, 0), interval) THEN N(60, 0)
  ELSE IF ~Less(N(210, 0), interval) THEN N(120, 0)
  ELSE IF ~Less(N(450, 0), interval) THEN N(300, 0)
  ELSE IF ~Less(N(750, 0), interval) THEN N(600, 0)
  ELSE IF ~Less(N(1050, 0), interval) THEN N(900, 0)
  ELSE IF ~Less(N(1500, 0), interval) THEN N(1200, 0)
  ELSE IF ~Less(N(2700, 0), interval) THEN N(1800, 0)
  ELSE IF ~Less(N(5400, 0), interval) THEN N(3600, 0)
  ELSE IF ~Less(N(9000, 0), interval) THEN N(7200, 0)
  ELSE IF ~Less(N(16200, 0), interval) THEN N(10800, 0)
  ELSE IF ~Less(N(32400, 0), interval) THEN N(21600, 0)
  ELSE IF ~Less(N(86400, 0), interval) THEN N(43200, 0)
  ELSE IF ~Less(N(604800, 0), interval) THEN N(86400, 0)
  ELSE IF ~Less(N(1814400, 0), interval) THEN N(604800, 0)
  ELSE IF ~Less(N(3628800, 0), interval) THEN N(2592000, 0)
  ELSE N(31536000, 0)

\* export function roundInterval(interval) (lines 351-443): switch (true)
\* takes the first case whose comparison holds.
roundInterval(interval) ==
  IF Less(interval, N(0, 10)) THEN N(0, 1)  \* line 354: interval < 10 -> 1
  ELSE IF Less(interval, N(0, 15)) THEN N(0, 10)  \* line 357: interval < 15 -> 10
  ELSE IF Less(interval, N(0, 35)) THEN N(0, 20)  \* line 360: interval < 35 -> 20
  ELSE IF Less(interval, N(0, 75)) THEN N(0, 50)  \* line 363: interval < 75 -> 50
  ELSE IF Less(interval, N(0, 150)) THEN N(0, 100)  \* line 366: interval < 150 -> 100
  ELSE IF Less(interval, N(0, 350)) THEN N(0, 200)  \* line 369: interval < 350 -> 200
  ELSE IF Less(interval, N(0, 750)) THEN N(0, 500)  \* line 372: interval < 750 -> 500
  ELSE IF Less(interval, N(1, 500)) THEN N(1, 0)  \* line 375: interval < 1500 -> 1000
  ELSE IF Less(interval, N(3, 500)) THEN N(2, 0)  \* line 378: interval < 3500 -> 2000
  ELSE IF Less(interval, N(7, 500)) THEN N(5, 0)  \* line 381: interval < 7500 -> 5000
  ELSE IF Less(interval, N(12, 500)) THEN N(10, 0)  \* line 384: interval < 12500 -> 10000
  ELSE IF Less(interval, N(17, 500)) THEN N(15, 0)  \* line 387: interval < 17500 -> 15000
  ELSE IF Less(interval, N(25, 0)) THEN N(20, 0)  \* line 390: interval < 25000 -> 20000
  ELSE IF Less(interval, N(45, 0)) THEN N(30, 0)  \* line 393: interval < 45000 -> 30000
  ELSE IF Less(interval, N(90, 0)) THEN N(60, 0)  \* line 396: interval < 90000 -> 60000
  ELSE IF Less(interval, N(210, 0)) THEN N(120, 0)  \* line 399: interval < 210000 -> 120000
  ELSE IF Less(interval, N(450, 0)) THEN N(300, 0)  \* line 402: interval < 450000 -> 300000
  ELSE IF Less(interval, N(750, 0)) THEN N(600, 0)  \* line 405: interval < 750000 -> 600000
  ELSE IF Less(interval, N(1050, 0)) THEN N(900, 0)  \* line 408: interval < 1050000 -> 900000
  ELSE IF Less(interval, N(1500, 0)) THEN N(1200, 0)  \* line 411: interval < 1500000 -> 1200000
  ELSE IF Less(interval, N(2700, 0)) THEN N(1800, 0)  \* line 414: interval < 2700000 -> 1800000
  ELSE IF Less(interval, N(5400, 0)) THEN N(3600, 0)  \* line 417: interval < 5400000 -> 3600000
  ELSE IF Less(interval, N(9000, 0)) THEN N(7200, 0)  \* line 420: interval < 9000000 -> 7200000
  ELSE IF Less(interval, N(16200, 0)) THEN N(10800, 0)  \* line 423: interval < 16200000 -> 10800000
  ELSE IF Less(interval, N(32400, 0)) THEN N(21600, 0)  \* line 426: interval < 32400000 -> 21600000
  ELSE IF Less(interval, N(86400, 0)) THEN N(43200, 0)  \* line 429: interval < 86400000 -> 43200000
  ELSE IF Less(interval, N(604800, 0)) THEN N(86400, 0)  \* line 432: interval < 604800000 -> 86400000
  ELSE IF Less(interval, N(1814400, 0)) THEN N(604800, 0)  \* line 435: interval < 1814400000 -> 604800000
  ELSE IF Less(interval, N(3628800, 0)) THEN N(2592000, 0)  \* line 438: interval < 3628800000 -> 2592000000
  ELSE N(31536000, 0)  \* line 441: default -> 31536000000

\* ---------------------------------------------------------------- secondsToHms

\* Mutant of secondsToHms: the minutes are appended to the hours.
secondsToHms_composite(seconds) ==
  LET s == seconds.s
      numYears == s \div 31536000
      numDays == (s % 31536000) \div 86400
      numHours == ((s % 31536000) % 86400) \div 3600
      numMinutes == (((s % 31536000) % 86400) % 3600) \div 60
      numSeconds == (((s % 31536000) % 86400) % 3600) % 60
      numMilliseconds == s * 1000 + (seconds.us \div 1000)
  IN  IF numYears # 0 THEN NatToString(numYears) \o <<"y">>
      ELSE IF numDays # 0 THEN NatToString(numDays) \o <<"d">>
      ELSE IF numHours # 0
        THEN NatToString(numHours) \o <<"h">>
               \o (IF numMinutes # 0 THEN NatToString(numMinutes) \o <<"m">> ELSE <<>>)
      ELSE IF numMinutes # 0 THEN NatToString(numMinutes) \o <<"m">>
      ELSE IF numSeconds # 0 THEN NatToString(numSeconds) \o <<"s">>
      ELSE IF numMilliseconds # 0 THEN NatToString(numMilliseconds) \o <<"m", "s">>
      ELSE <<"l", "e", "s", "s", " ", "t", "h", "a", "n", " ", "a", " ", "m", "i", "l", "l", "i", "s", "e", "c", "o", "n", "d">>

\* export function secondsToHms(seconds) (lines 232-259), seconds >= 0.
\* Math.floor((seconds % a) / b) of s + fraction is (s % a) \div b for
\* integers a, b; Math.floor(seconds * 1000.0) is s * 1000 + us \div 1000.
secondsToHms(seconds) ==
  LET s == seconds.s
      numYears == s \div 31536000
      numDays == (s % 31536000) \div 86400
      numHours == ((s % 31536000) % 86400) \div 3600
      numMinutes == (((s % 31536000) % 86400) % 3600) \div 60
      numSeconds == (((s % 31536000) % 86400) % 3600) % 60
      numMilliseconds == s * 1000 + (seconds.us \div 1000)
  IN  IF numYears # 0 THEN NatToString(numYears) \o <<"y">>
      ELSE IF numDays # 0 THEN NatToString(numDays) \o <<"d">>
      ELSE IF numHours # 0 THEN NatToString(numHours) \o <<"h">>
      ELSE IF numMinutes # 0 THEN NatToString(numMinutes) \o <<"m">>
      ELSE IF numSeconds # 0 THEN NatToString(numSeconds) \o <<"s">>
      ELSE IF numMilliseconds # 0 THEN NatToString(numMilliseconds) \o <<"m", "s">>
      ELSE <<"l", "e", "s", "s", " ", "t", "h", "a", "n", " ", "a", " ", "m", "i", "l", "l", "i", "s", "e", "c", "o", "n", "d">>

\* ---------------------------------------------------------------- msRangeToTimeString

\* Mutant of msRangeToTimeString: the space before the seconds is added only
\* after minutes (formattedM && formattedS), not after hours alone.
msRangeToTimeString_noGap(rangeMs) ==
  LET rangeSec == rangeMs.k + (IF rangeMs.u >= 500 THEN 1 ELSE 0)
      h == (rangeSec \div 60) \div 60
      m == (rangeSec \div 60) - h * 60
      s == rangeSec % 60
      formattedH0 == IF h # 0 THEN NatToString(h) \o <<"h">> ELSE <<>>
      formattedM0 == IF m # 0 THEN NatToString(m) \o <<"m", "i", "n">> ELSE <<>>
      formattedS == IF s # 0 THEN NatToString(s) \o <<"s", "e", "c">> ELSE <<>>
      formattedH == IF formattedH0 # <<>> /\ formattedM0 # <<>>
                      THEN formattedH0 \o <<" ">> ELSE formattedH0
      formattedM == IF formattedM0 # <<>> /\ formattedS # <<>>
                      THEN formattedM0 \o <<" ">> ELSE formattedM0
      out == formattedH \o formattedM \o formattedS
  IN  IF out # <<>> THEN out ELSE <<"l", "e", "s", "s", " ", "t", "h", "a", "n", " ", "1", "s", "e", "c">>

\* export function msRangeToTimeString(rangeMs) (lines 262-276), rangeMs >= 0.
\* Number((rangeMs / 1000).toFixed()) rounds to the nearest whole second, a
\* half upwards.  '' is falsy, so x || 'less than 1sec' takes the literal
\* exactly when the concatenation is empty.
msRangeToTimeString(rangeMs) ==
  LET rangeSec == rangeMs.k + (IF rangeMs.u >= 500 THEN 1 ELSE 0)
      h == (rangeSec \div 60) \div 60
      m == (rangeSec \div 60) - h * 60
      s == rangeSec % 60
      formattedH0 == IF h # 0 THEN NatToString(h) \o <<"h">> ELSE <<>>
      formattedM0 == IF m # 0 THEN NatToString(m) \o <<"m", "i", "n">> ELSE <<>>
      formattedS == IF s # 0 THEN NatToString(s) \o <<"s", "e", "c">> ELSE <<>>
      formattedH == IF formattedH0 # <<>> /\ formattedM0 # <<>>
                      THEN formattedH0 \o <<" ">> ELSE formattedH0
      formattedM == IF (formattedM0 # <<>> \/ formattedH # <<>>) /\ formattedS # <<>>
                      THEN formattedM0 \o <<" ">> ELSE formattedM0
      out == formattedH \o formattedM \o formattedS
  IN  IF out # <<>> THEN out ELSE <<"l", "e", "s", "s", " ", "t", "h", "a", "n", " ", "1", "s", "e", "c">>

\* ---------------------------------------------------------------- describeInterval

\* A JavaScript number that is an integer or NaN (the results of parseInt).
Num(n) == [nan |-> FALSE, n |-> n]

NaN == [nan |-> TRUE, n |-> 0]

\* Whether str is a decimal literal of Number(str): an optional sign, then
\* digits with an optional "." and optional fraction digits, or "." and
\* digits.  (The strings of this model hold no white space, no exponent, no
\* 0x/0o/0b prefix and no "Infinity": on every other string Number is NaN.)
IsDecimalLiteral(str) ==
  LET b == IF str # <<>> /\ str[1] \in {"-", "+"} THEN 2 ELSE 1
      n == DigitRun(str, b)
      f == IF b + n <= Len(str) /\ str[b + n] = "." THEN DigitRun(str, b + n + 1) ELSE 0
      dot == b + n <= Len(str) /\ str[b + n] = "."
  IN  /\ n + f >= 1
      /\ Len(str) = (b - 1) + n + (IF dot THEN 1 + f ELSE 0)

\* if (Number(str)) (line 309): NaN, 0 and -0 are falsy.
NumberIsTruthy(str) ==
  /\ IsDecimalLiteral(str)
  /\ \E k \in DOMAIN str : IsDigit(str[k]) /\ str[k] # "0"

\* parseInt(str, 10): an optional sign and the leading digits; NaN without a
\* leading digit.
parseInt(str) ==
  LET neg == str # <<>> /\ str[1] = "-"
      b == IF str # <<>> /\ str[1] \in {"-", "+"} THEN 2 ELSE 1
      n == DigitRun(str, b)
      v == DigitsToNat(SubSeq(str, b, b + n - 1))
  IN  IF n = 0 THEN NaN ELSE Num(IF neg THEN -v ELSE v)

\* const intervals_in_seconds (lines 296-305); ms: 0.001 is 1000 microseconds.
intervals_in_seconds ==
  [u \in {<<"y">>, <<"M">>, <<"w">>, <<"d">>, <<"h">>, <<"m">>, <<"s">>, <<"m", "s">>} |->
     CASE u = <<"y">> -> Seconds(31536000, 0)
       [] u = <<"M">> -> Seconds(2592000, 0)
       [] u = <<"w">> -> Seconds(604800, 0)
       [] u = <<"d">> -> Seconds(86400, 0)
       [] u = <<"h">> -> Seconds(3600, 0)
       [] u = <<"m">> -> Seconds(60, 0)
       [] u = <<"s">> -> Seconds(1, 0)
       [] u = <<"m", "s">> -> Seconds(0, 1000)]

\* The match of /(-?\d+(?:\.\d+)?)(ms|[Mwdhmsy])/ (line 294) that starts at
\* position p, if any.  Every quantifier is greedy; giving a digit back never
\* helps, since the character that then follows is a digit and neither "."
\* nor a unit.  In (ms|[Mwdhmsy]) the alternative ms is tried first.
IntervalMatchAt(str, p) ==
  LET b == IF p <= Len(str) /\ str[p] = "-" THEN p + 1 ELSE p
      n == DigitRun(str, b)
      f == IF b + n <= Len(str) /\ str[b + n] = "." THEN DigitRun(str, b + n + 1) ELSE 0
      q == IF f >= 1 THEN b + n + 1 + f ELSE b + n
  IN  IF n = 0 \/ q > Len(str) THEN [matched |-> FALSE]
      ELSE IF q + 1 <= Len(str) /\ SubSeq(str, q, q + 1) = <<"m", "s">>
        THEN [matched |-> TRUE, number |-> SubSeq(str, p, q - 1), unit |-> <<"m", "s">>]
      ELSE IF str[q] \in {"M", "w", "d", "h", "m", "s", "y"}
        THEN [matched |-> TRUE, number |-> SubSeq(str, p, q - 1), unit |-> <<str[q]>>]
      ELSE [matched |-> FALSE]

\* str.match(interval_regex) (line 317): the regular expression is not
\* anchored, so the leftmost position with a match wins; matches[1] = number,
\* matches[2] = unit.
interval_regex(str) ==
  LET hits == {p \in 1..Len(str) : IntervalMatchAt(str, p).matched}
  IN  IF hits = {} THEN [matched |-> FALSE]
      ELSE IntervalMatchAt(str, CHOOSE p \in hits : \A r \in hits : p <= r)

\* export function describeInterval(str) (lines 307-339)
describeInterval(str) ==
  IF NumberIsTruthy(str)
    THEN Return([sec |-> intervals_in_seconds[<<"s">>], type |-> <<"s">>,
                 count |-> parseInt(str)])
  ELSE LET matches == interval_regex(str)
       IN  IF ~matches.matched
             THEN Throw("Invalid interval string, has to be either unit-less or end with one of the following units")
           ELSE IF matches.unit \notin DOMAIN intervals_in_seconds
             THEN Throw("describeInterval failed: invalid interval string")
           ELSE Return([sec |-> intervals_in_seconds[matches.unit],
                        type |-> matches.unit,
                        count |-> parseInt(matches.number)])

\* info.sec * info.count (line 343), in seconds; NaN when the count is NaN.
\* The product is exact here (0.001 * count is rounded in the code).
SecondsTimes(sec, count) ==
  IF count.nan THEN [nan |-> TRUE, s |-> 0, us |-> 0]
  ELSE LET us == sec.us * count.n
       IN  [nan |-> FALSE, s |-> sec.s * count.n + (us \div 1000000), us |-> us % 1000000]

\* info.sec * 1000 * info.count (line 348), in milliseconds; NaN when the
\* count is NaN.  0.001 * 1000 is exactly 1 in IEEE doubles.
MillisTimes(sec, count) ==
  IF count.nan THEN [nan |-> TRUE, k |-> 0, u |-> 0]
  ELSE LET u == (sec.us \div 1000) * count.n
       IN  [nan |-> FALSE, k |-> sec.s * count.n + (u \div 1000), u |-> u % 1000]

\* export function intervalToSeconds(str) (lines 341-344): a throw of
\* describeInterval propagates.
intervalToSeconds(str) ==
  LET info == describeInterval(str)
  IN  IF info.threw THEN info ELSE Return(SecondsTimes(info.value.sec, info.value.count))

\* Mutant of intervalToMs: a throw of describeInterval is caught and NaN is
\* returned.
intervalToMs_swallow(str) ==
  LET info == describeInterval(str)
  IN  IF info.threw THEN Return([nan |-> TRUE, k |-> 0, u |-> 0])
      ELSE Return(MillisTimes(info.value.sec, info.value.count))

\* export function intervalToMs(str) (lines 346-349): a throw of
\* describeInterval propagates.
intervalToMs(str) ==
  LET info == describeInterval(str)
  IN  IF info.threw THEN info ELSE Return(MillisTimes(info.value.sec, info.value.count))

\* ---------------------------------------------------------------- calculateInterval

\* export function calculateInterval(range, resolution, lowLimitInterval)
\* (lines 278-292).  lowLimitInterval is <<>> when it is absent or the empty
\* string: both are falsy on line 280.  lowLimitMs > intervalMs is false when
\* lowLimitMs is NaN.
calculateInterval(range, resolution, lowLimitInterval) ==
  LET Rest(limit, rounded) ==
        IF limit.threw THEN limit
        ELSE LET lowLimitMs == limit.value
                 intervalMs == IF ~lowLimitMs.nan /\ Less(rounded, lowLimitMs)
                                 THEN N(lowLimitMs.k, lowLimitMs.u)
                                 ELSE rounded
             IN  Return([intervalMs |-> intervalMs,
                         interval |-> secondsToHms(MsToSeconds(intervalMs))])
  IN  The({Rest(limit, rounded) :
             limit \in {IF lowLimitInterval # <<>>
                          THEN intervalToMs(lowLimitInterval)
                          ELSE Return([nan |-> FALSE, k |-> 0, u |-> 1])},
             rounded \in {roundInterval(QuotientFloor(Minus(range.to, range.from),
                                                      resolution))}})

\* ---------------------------------------------------------------- relative ranges
\* A DateTime is its epoch time in milliseconds, N(k, u).

\* DateTime.unix(): the epoch time in whole seconds, Math.floor(ms / 1000).
unix(t) == t.k

\* dateTime(t).subtract(n, 's'): n seconds earlier, the millisecond part kept.
subtractSeconds(t, n) == N(t.k - n, t.u)

\* export function timeRangeToRelative(timeRange, now) (lines 451-459)
timeRangeToRelative(timeRange, now) ==
  [from |-> unix(now) - unix(timeRange.from),
   to |-> unix(now) - unix(timeRange.to)]

\* Mutant of relativeToTimeRange: the offsets are added to now.
relativeToTimeRange_add(relativeTimeRange, now) ==
  LET from == subtractSeconds(now, -relativeTimeRange.from)
      to == IF relativeTimeRange.to = 0 THEN now
            ELSE subtractSeconds(now, -relativeTimeRange.to)
  IN  [from |-> from, to |-> to, raw |-> [from |-> from, to |-> to]]

\* export function relativeToTimeRange(relativeTimeRange, now) (lines 466-475)
relativeToTimeRange(relativeTimeRange, now) ==
  LET from == subtractSeconds(now, relativeTimeRange.from)
      to == IF relativeTimeRange.to = 0 THEN now
            ELSE subtractSeconds(now, relativeTimeRange.to)
  IN  [from |-> from, to |-> to, raw |-> [from |-> from, to |-> to]]

\* ---------------------------------------------------------------- inputs

\* Amounts written in the generated expressions run over 0..MaxAmount.
MaxAmount == 6

SeqsOf(seq) == {seq[k] : k \in DOMAIN seq}

CatalogFroms == {f.from : f \in SeqsOf(rangeOptions) \cup SeqsOf(hiddenRangeOptions)}

CatalogTos == {f.to : f \in SeqsOf(rangeOptions) \cup SeqsOf(hiddenRangeOptions)}

ExprLead == {<<>>, <<"+">>, <<"$">>, <<"+", "$">>}

ExprNow == {<<>>, NowStr, <<"n", "o", "w", "-">>, <<"n", "o", "w", "+">>, <<"-">>}

ExprAmount ==
  {<<>>} \cup {NatToString(n) : n \in 0..MaxAmount}
         \cup {<<"0">> \o NatToString(n) : n \in 1..2}

ExprUnit ==
  {<<>>, <<"s">>, <<"m">>, <<"h">>, <<"d">>, <<"w">>, <<"M">>, <<"y">>,
   <<"x">>, <<"Q">>, <<"_">>, <<"m", "s">>, <<"/">>}

ExprSuffix == {<<>>, <<"/", "d">>}

\* Expressions handed to describeTextRange and isValidTimeSpan.
Expressions ==
  CatalogFroms \cup CatalogTos \cup
  {l \o n \o a \o u \o s :
     l \in ExprLead, n \in ExprNow, a \in ExprAmount, u \in ExprUnit, s \in ExprSuffix}

\* Raw ranges (both sides strings) handed to describeTimeRange.
RawRanges ==
  {[from |-> f, to |-> t] :
     f \in CatalogFroms \cup {n \o a \o u : n \in {<<>>, <<"n", "o", "w", "-">>}, a \in ExprAmount,
                                            u \in {<<>>, <<"m">>, <<"x">>}},
     t \in CatalogTos \cup {<<"n", "o", "w", "-", "1", "m">>}}

\* a + b on millisecond quantities
Plus(a, b) ==
  IF a.u + b.u < 1000 THEN N(a.k + b.k, a.u + b.u) ELSE N(a.k + b.k + 1, a.u + b.u - 1000)

\* The durations 0 .. MaxSmallMs ms are all handed to roundInterval.
MaxSmallMs == 160

\* Durations at and next to the comparison constants of roundInterval.
EdgeDurations ==
  {N(0, 10), N(0, 15), N(0, 35), N(0, 75), N(0, 150),
   N(0, 350), N(0, 750), N(1, 500), N(3, 500), N(7, 500),
   N(12, 500), N(17, 500), N(25, 0), N(45, 0), N(90, 0),
   N(210, 0), N(450, 0), N(750, 0), N(1050, 0), N(1500, 0),
   N(2700, 0), N(5400, 0), N(9000, 0), N(16200, 0), N(32400, 0),
   N(86400, 0), N(604800, 0), N(1814400, 0), N(3628800, 0)}

RoundInputs ==
  {N(0, u) : u \in 0..MaxSmallMs}
    \cup EdgeDurations
    \cup {Minus(b, N(0, 1)) : b \in EdgeDurations}
    \cup {Plus(b, N(0, 1)) : b \in EdgeDurations}
    \cup {N(-1, 999), N(-5, 0), N(31536000, 0), N(40000000, 0)}

\* Each unit count of a generated duration runs over 0..MaxUnitCount (and 59).
MaxUnitCount == 2

UnitCounts == (0..MaxUnitCount) \cup {59}

\* Non-negative durations in seconds handed to secondsToHms.
SecondsInputs ==
  {Seconds(y * 31536000 + d * 86400 + h * 3600 + m * 60 + s, us) :
     y \in 0..MaxUnitCount, d \in 0..MaxUnitCount, h \in 0..MaxUnitCount,
     m \in 0..MaxUnitCount, s \in 0..MaxUnitCount,
     us \in {0, 1, 100, 999, 1000, 1001, 999999}}
    \cup {Seconds(s, us) : s \in {59, 61, 3599, 3661, 86399, 31535999},
                           us \in {0, 999999}}

\* Non-negative millisecond ranges handed to msRangeToTimeString.
RangeMsInputs ==
  {N(h * 3600 + m * 60 + s, u) :
     h \in UnitCounts, m \in UnitCounts, s \in UnitCounts, u \in {0, 499, 500, 999}}
    \cup {N(5400, 0)}

\* Interval strings: every string of at most MaxIntervalLen characters over
\* IntervalAlphabet, and numbers followed by each unit.
MaxIntervalLen == 4

IntervalAlphabet == {"0", "5", ".", "-", "m", "s", "k"}

IntervalNumbers == {<<"0">>, <<"1">>, <<"1", "5">>, <<"1", ".", "5">>, <<"-", "5">>}

IntervalStrings ==
  UNION {[1..n -> IntervalAlphabet] : n \in 0..MaxIntervalLen}
    \cup {n \o u : n \in IntervalNumbers, u \in DOMAIN intervals_in_seconds}
    \cup {<<"9", "0">>, <<"b", "o", "g", "u", "s">>}

\* Low limits handed to calculateInterval; <<>> is no limit.
LowLimits ==
  {<<>>, <<"0">>, <<"0", "0">>, <<"5">>, <<"9", "0">>, <<"-", "5">>, <<".", "5">>, <<"0", "m">>, <<"5", "m">>, <<"1", "m", "s">>, <<"1", "5", "m", "s">>, <<"1", ".", "5", "h">>,
   <<"2", "h">>, <<"1", "5", "d">>, <<"1", "w">>, <<"1", "M">>, <<"1", "y">>, <<"k">>, <<"5", "k">>, <<"k", "5", "s">>, <<"b", "o", "g", "u", "s">>}

\* Resolutions run over 1..MaxResolution (and 100).
MaxResolution == 2

Resolutions == (1..MaxResolution) \cup {100}

\* Time ranges handed to calculateInterval: from, and to = from + span.
RangeStarts == {N(0, 0), N(1700000000, 123)}

RangeSpans ==
  EdgeDurations \cup {Minus(b, N(0, 1)) : b \in EdgeDurations}
    \cup {N(3600, 0), N(0, 0), N(-1, 0), N(7257600, 0)}

\* Instants (epoch milliseconds) of the relative-range conversions: the
\* seconds 0..MaxEpochSec with several millisecond parts.
MaxEpochSec == 2

Instants == {N(k, u) : k \in 0..MaxEpochSec, u \in {0, 1, 999}} \cup {N(1700000000, 500)}

\* Offsets in seconds of a RelativeTimeRange run over 0..MaxOffset.
MaxOffset == 3

\* ---------------------------------------------------------------- module load

Init ==
  /\ pc = "rangeOptions"
  /\ i = 1
  /\ rangeIndex = <<>>
  /\ op = "none"
  /\ arg = <<>>
  /\ res = <<>>

\* each(rangeOptions, (frame) => { rangeIndex[...] = frame; }) (lines 82-84)
EachRangeOptions ==
  /\ pc = "rangeOptions"
  /\ IF i <= Len(rangeOptions)
       THEN /\ rangeIndex' = IndexPut(rangeIndex, rangeOptions[i])
            /\ i' = i + 1
            /\ pc' = pc
       ELSE /\ pc' = "hiddenRangeOptions"
            /\ i' = 1
            /\ rangeIndex' = rangeIndex
  /\ UNCHANGED <<op, arg, res>>

\* each(hiddenRangeOptions, (frame) => { rangeIndex[...] = frame; }) (lines 85-87)
EachHiddenRangeOptions ==
  /\ pc = "hiddenRangeOptions"
  /\ IF i <= Len(hiddenRangeOptions)
       THEN /\ rangeIndex' = IndexPut(rangeIndex, hiddenRangeOptions[i])
            /\ i' = i + 1
            /\ pc' = pc
       ELSE /\ pc' = "ready"
            /\ i' = 1
            /\ rangeIndex' = rangeIndex
  /\ UNCHANGED <<op, arg, res>>

\* ---------------------------------------------------------------- calls
\* The exported functions are callable once the module has loaded.  The module
\* is synchronous and single-threaded: a call is made while no other call is
\* running (op = "none"), runs to its outcome, and the outcome goes back to
\* the caller (CallCompletes).  None of the functions assigns to rangeIndex.

Idle == pc = "ready" /\ op = "none"

CallCompletes ==
  /\ pc = "ready"
  /\ op # "none"
  /\ op' = "none"
  /\ arg' = <<>>
  /\ res' = <<>>
  /\ UNCHANGED <<pc, i, rangeIndex>>

CallDescribeTextRange ==
  /\ Idle
  /\ \E expr \in Expressions :
       /\ op' = "describeTextRange"
       /\ arg' = <<expr>>
       /\ res' = Return(describeTextRange(expr))
  /\ UNCHANGED <<pc, i, rangeIndex>>

CallDescribeTimeRange ==
  /\ Idle
  /\ \E range \in RawRanges :
       /\ op' = "describeTimeRange"
       /\ arg' = <<range>>
       /\ res' = Return(describeTimeRange(range))
  /\ UNCHANGED <<pc, i, rangeIndex>>

CallIsValidTimeSpan ==
  /\ Idle
  /\ \E value \in Expressions :
       /\ op' = "isValidTimeSpan"
       /\ arg' = <<value>>
       /\ res' = Return(isValidTimeSpan(value))
  /\ UNCHANGED <<pc, i, rangeIndex>>

CallSecondsToHms ==
  /\ Idle
  /\ \E seconds \in SecondsInputs :
       /\ op' = "secondsToHms"
       /\ arg' = <<seconds>>
       /\ res' = Return(secondsToHms(seconds))
  /\ UNCHANGED <<pc, i, rangeIndex>>

CallMsRangeToTimeString ==
  /\ Idle
  /\ \E rangeMs \in RangeMsInputs :
       /\ op' = "msRangeToTimeString"
       /\ arg' = <<rangeMs>>
       /\ res' = Return(msRangeToTimeString(rangeMs))
  /\ UNCHANGED <<pc, i, rangeIndex>>

CallCalculateInterval ==
  /\ Idle
  /\ \E from \in RangeStarts, span \in RangeSpans, resolution \in Resolutions,
        lowLimitInterval \in LowLimits :
       /\ op' = "calculateInterval"
       /\ arg' = <<[from |-> from, to |-> Plus(from, span)], resolution, lowLimitInterval>>
       /\ res' = calculateInterval([from |-> from, to |-> Plus(from, span)], resolution,
                                lowLimitInterval)
  /\ UNCHANGED <<pc, i, rangeIndex>>

CallDescribeInterval ==
  /\ Idle
  /\ \E str \in IntervalStrings :
       /\ op' = "describeInterval"
       /\ arg' = <<str>>
       /\ res' = describeInterval(str)
  /\ UNCHANGED <<pc, i, rangeIndex>>

CallIntervalToSeconds ==
  /\ Idle
  /\ \E str \in IntervalStrings :
       /\ op' = "intervalToSeconds"
       /\ arg' = <<str>>
       /\ res' = intervalToSeconds(str)
  /\ UNCHANGED <<pc, i, rangeIndex>>

CallIntervalToMs ==
  /\ Idle
  /\ \E str \in IntervalStrings :
       /\ op' = "intervalToMs"
       /\ arg' = <<str>>
       /\ res' = intervalToMs(str)
  /\ UNCHANGED <<pc, i, rangeIndex>>

CallRoundInterval ==
  /\ Idle
  /\ \E interval \in RoundInputs :
       /\ op' = "roundInterval"
       /\ arg' = <<interval>>
       /\ res' = Return(roundInterval(interval))
  /\ UNCHANGED <<pc, i, rangeIndex>>

CallTimeRangeToRelative ==
  /\ Idle
  /\ \E from \in Instants, to \in Instants, now \in Instants :
       /\ op' = "timeRangeToRelative"
       /\ arg' = <<[from |-> from, to |-> to], now>>
       /\ res' = Return(timeRangeToRelative([from |-> from, to |-> to], now))
  /\ UNCHANGED <<pc, i, rangeIndex>>

CallRelativeToTimeRange ==
  /\ Idle
  /\ \E from \in 0..MaxOffset, to \in 0..MaxOffset, now \in Instants :
       /\ op' = "relativeToTimeRange"
       /\ arg' = <<[from |-> from, to |-> to], now>>
       /\ res' = Return(relativeToTimeRange([from |-> from, to |-> to], now))
  /\ UNCHANGED <<pc, i, rangeIndex>>

Next ==
  \/ EachRangeOptions
  \/ EachHiddenRangeOptions
  \/ CallDescribeTextRange
  \/ CallDescribeTimeRange
  \/ CallIsValidTimeSpan
  \/ CallSecondsToHms
  \/ CallMsRangeToTimeString
  \/ CallCalculateInterval
  \/ CallDescribeInterval
  \/ CallIntervalToSeconds
  \/ CallIntervalToMs
  \/ CallRoundInterval
  \/ CallTimeRangeToRelative
  \/ CallRelativeToTimeRange
  \/ CallCompletes

Spec == Init /\ [][Next]_vars

\* ================================================================ properties

\* ---------------------------------------------------------------- C1
\* The ladder of roundInterval: each entry's exclusive upper bound and its
\* canonical value, in ascending order.
Ladder ==
  <<[bound |-> N(0, 10), value |-> N(0, 1)],
    [bound |-> N(0, 15), value |-> N(0, 10)],
    [bound |-> N(0, 35), value |-> N(0, 20)],
    [bound |-> N(0, 75), value |-> N(0, 50)],
    [bound |-> N(0, 150), value |-> N(0, 100)],
    [bound |-> N(0, 350), value |-> N(0, 200)],
    [bound |-> N(0, 750), value |-> N(0, 500)],
    [bound |-> N(1, 500), value |-> N(1, 0)],
    [bound |-> N(3, 500), value |-> N(2, 0)],
    [bound |-> N(7, 500), value |-> N(5, 0)],
    [bound |-> N(12, 500), value |-> N(10, 0)],
    [bound |-> N(17, 500), value |-> N(15, 0)],
    [bound |-> N(25, 0), value |-> N(20, 0)],
    [bound |-> N(45, 0), value |-> N(30, 0)],
    [bound |-> N(90, 0), value |-> N(60, 0)],
    [bound |-> N(210, 0), value |-> N(120, 0)],
    [bound |-> N(450, 0), value |-> N(300, 0)],
    [bound |-> N(750, 0), value |-> N(600, 0)],
    [bound |-> N(1050, 0), value |-> N(900, 0)],
    [bound |-> N(1500, 0), value |-> N(1200, 0)],
    [bound |-> N(2700, 0), value |-> N(1800, 0)],
    [bound |-> N(5400, 0), value |-> N(3600, 0)],
    [bound |-> N(9000, 0), value |-> N(7200, 0)],
    [bound |-> N(16200, 0), value |-> N(10800, 0)],
    [bound |-> N(32400, 0), value |-> N(21600, 0)],
    [bound |-> N(86400, 0), value |-> N(43200, 0)],
    [bound |-> N(604800, 0), value |-> N(86400, 0)],
    [bound |-> N(1814400, 0), value |-> N(604800, 0)],
    [bound |-> N(3628800, 0), value |-> N(2592000, 0)]>>

OneYear == N(31536000, 0)

\* The value the ladder gives a duration d: that of the first entry whose
\* bound is greater than d, one year when there is none.
LadderValue(d) ==
  LET above == {j \in DOMAIN Ladder : Less(d, Ladder[j].bound)}
  IN  IF above = {} THEN OneYear
      ELSE Ladder[CHOOSE j \in above : \A l \in above : j <= l].value

\* C1: roundInterval(d) is the canonical value of the first ladder entry whose
\* exclusive upper bound is greater than d, and 1 year when d is at or above
\* every bound (>= 3628800000); a d equal to a bound maps to the next bucket
\* up.  The ladder is ascending in bounds and in values.
C1_RoundIntervalLadder ==
  /\ \A j \in 1..(Len(Ladder) - 1) :
       /\ Less(Ladder[j].bound, Ladder[j + 1].bound)
       /\ Less(Ladder[j].value, Ladder[j + 1].value)
  /\ op = "roundInterval" =>
       LET d == arg[1]
       IN  /\ res = Return(LadderValue(d))
           /\ ~Less(d, N(3628800, 0)) => res.value = OneYear
           /\ \A j \in DOMAIN Ladder :
                d = Ladder[j].bound =>
                  res.value = (IF j < Len(Ladder) THEN Ladder[j + 1].value ELSE OneYear)

\* C1 witness: the boundary value 15 ms has been rounded, to 20 ms and not 10.
C1_Witness ==
  op = "roundInterval" /\ arg = <<N(0, 15)>> /\ res = Return(N(0, 20))

\* ---------------------------------------------------------------- C2
\* C2 as stated: the round trip relativeToTimeRange(timeRangeToRelative(tr,
\* now), now) returns exactly tr.from and tr.to, for instants of millisecond
\* precision.
C2_RoundTripExact ==
  op = "timeRangeToRelative" =>
    LET tr == arg[1]
        now == arg[2]
        back == relativeToTimeRange(res.value, now)
    IN  back.from = tr.from /\ back.to = tr.to

\* C2 amended: the round trip returns tr.from and tr.to with their
\* millisecond-within-second part replaced by that of now; so it returns
\* them exactly when from, to and now have the same millisecond part.
C2_RoundTripUpToMillis ==
  op = "timeRangeToRelative" =>
    LET tr == arg[1]
        now == arg[2]
        back == relativeToTimeRange(res.value, now)
    IN  /\ back.from = N(tr.from.k, now.u)
        /\ back.to = N(tr.to.k, now.u)
        /\ back.raw = [from |-> back.from, to |-> back.to]
        /\ (tr.from.u = now.u /\ tr.to.u = now.u) => (back.from = tr.from /\ back.to = tr.to)

\* C2 witness: a range with distinct from and to whose millisecond parts are
\* those of now (999) has been converted, and converts back exactly.
C2_Witness ==
  /\ op = "timeRangeToRelative"
  /\ arg = <<[from |-> N(0, 999), to |-> N(1, 999)], N(2, 999)>>
  /\ res = Return([from |-> 2, to |-> 1])
  /\ relativeToTimeRange(res.value, arg[2]).from = N(0, 999)
  /\ relativeToTimeRange(res.value, arg[2]).to = N(1, 999)

\* ---------------------------------------------------------------- interval strings
\* The two forms of an interval string: purely numeric, and <number><unit>
\* with <number> = -?digits(.digits)? and <unit> one of ms, M, w, d, h, m, s, y.
IsPurelyNumeric(str) == str # <<>> /\ \A k \in DOMAIN str : IsDigit(str[k])

UnitNames ==
  {<<"m", "s">>, <<"M">>, <<"w">>, <<"d">>, <<"h">>, <<"m">>, <<"s">>, <<"y">>}

IsIntervalNumber(n) ==
  LET b == IF n # <<>> /\ n[1] = "-" THEN 2 ELSE 1
      d == DigitRun(n, b)
  IN  /\ d >= 1
      /\ \/ Len(n) = b - 1 + d
         \/ /\ Len(n) > b + d
            /\ n[b + d] = "."
            /\ DigitRun(n, b + d + 1) = Len(n) - (b + d)

\* The positions j at which str splits into <number> (1..j) and <unit>.
NumberUnitSplits(str) ==
  {j \in 1..(Len(str) - 1) :
     IsIntervalNumber(SubSeq(str, 1, j)) /\ SubSeq(str, j + 1, Len(str)) \in UnitNames}

IsNumberUnit(str) == NumberUnitSplits(str) # {}

ContainsNumberUnit(str) ==
  \E a \in 1..Len(str), b \in 1..Len(str) : a < b /\ IsNumberUnit(SubSeq(str, a, b))

\* ---------------------------------------------------------------- C3
Max(a, b) == IF Less(a, b) THEN b ELSE a

\* C3: for every range, resolution and optional low limit (absent, purely
\* numeric or <number><unit>), calculateInterval returns intervalMs =
\* max(roundInterval((to - from) / resolution), lowLimitMs), lowLimitMs being
\* the low limit in milliseconds (count * seconds-per-unit * 1000) or 1 when
\* there is none, and interval = secondsToHms(intervalMs / 1000).
C3_CalculateIntervalMax ==
  (op = "calculateInterval" /\ (arg[3] = <<>> \/ IsPurelyNumeric(arg[3]) \/ IsNumberUnit(arg[3]))) =>
    LET range == arg[1]
        str == arg[3]
        split == CHOOSE x \in NumberUnitSplits(str) : TRUE
        lowLimitMs ==
          IF str = <<>> THEN N(0, 1)
          ELSE IF IsPurelyNumeric(str) THEN N(DigitsToNat(str), 0)
          ELSE LET m == MillisTimes(intervals_in_seconds[SubSeq(str, split + 1, Len(str))],
                                    parseInt(SubSeq(str, 1, split)))
               IN  N(m.k, m.u)
        rounded == roundInterval(QuotientFloor(Minus(range.to, range.from), arg[2]))
    IN  /\ ~res.threw
        /\ res.value.intervalMs = Max(rounded, lowLimitMs)
        /\ ~Less(res.value.intervalMs, lowLimitMs)
        /\ res.value.interval = secondsToHms(MsToSeconds(res.value.intervalMs))
        /\ (range = [from |-> N(0, 0), to |-> N(3600, 0)] /\ arg[2] = 100 /\ str = <<>>)
             => res.value.intervalMs = N(30, 0)

\* ---------------------------------------------------------------- C4
\* C4: describeInterval reads every purely numeric string (including "0") as
\* a count of seconds, {sec: 1, type: 's', count: its value}, and every
\* <number><unit> string as {sec: the table's seconds for the unit, type:
\* the unit, count: the integer parse of the number}; 'ms' is milliseconds.
C4_DescribeIntervalForms ==
  op = "describeInterval" =>
    LET str == arg[1]
        split == CHOOSE x \in NumberUnitSplits(str) : TRUE
    IN  /\ IsPurelyNumeric(str) =>
             res = Return([sec |-> Seconds(1, 0), type |-> <<"s">>,
                           count |-> Num(DigitsToNat(str))])
        /\ IsNumberUnit(str) =>
             res = Return([sec |-> intervals_in_seconds[SubSeq(str, split + 1, Len(str))],
                           type |-> SubSeq(str, split + 1, Len(str)),
                           count |-> parseInt(SubSeq(str, 1, split))])
        /\ (Len(str) >= 2 /\ IsPurelyNumeric(SubSeq(str, 1, Len(str) - 2))
              /\ SubSeq(str, Len(str) - 1, Len(str)) = <<"m", "s">>) =>
             (res.value.type = <<"m", "s">> /\ res.value.sec = Seconds(0, 1000))

\* ---------------------------------------------------------------- C5
NeverFailing ==
  {"describeTextRange", "describeTimeRange", "isValidTimeSpan", "secondsToHms",
   "msRangeToTimeString", "roundInterval", "timeRangeToRelative", "relativeToTimeRange"}

HasNonZeroNumericValue(str) ==
  /\ str # <<>>
  /\ \E k \in DOMAIN str : IsDigit(str[k]) /\ str[k] # "0"
  /\ LET b == IF str[1] \in {"-", "+"} THEN 2 ELSE 1
         body == SubSeq(str, b, Len(str))
         dots == {k \in DOMAIN body : body[k] = "."}
     IN  /\ \A k \in DOMAIN body : IsDigit(body[k]) \/ body[k] = "."
         /\ Cardinality(dots) <= 1
         /\ \E k \in DOMAIN body : IsDigit(body[k])

\* describeInterval fails on str.
DescribeIntervalFailsOn(str) == ~HasNonZeroNumericValue(str) /\ ~ContainsNumberUnit(str)

Normalised(expr) ==
  IF IndexOf(expr, NowStr) # -1 THEN expr
  ELSE IF expr # <<>> /\ expr[1] = "+" THEN NowStr \o expr
  ELSE <<"n", "o", "w", "-">> \o expr

LeadingPlus(expr) == expr # <<>> /\ expr[1] = "+"

\* e is exactly now[+-]<integer><unit>, <unit> a character of \w.
IsCanonical(e) ==
  /\ Len(e) >= 6
  /\ SubSeq(e, 1, 3) = NowStr
  /\ e[4] \in {"-", "+"}
  /\ \A k \in 5..(Len(e) - 1) : IsDigit(e[k])
  /\ IsWord(e[Len(e)])

Presets == SeqsOf(rangeOptions) \cup SeqsOf(hiddenRangeOptions)

\* The catalog has a preset with the key "{e} to now".
HasPreset(e) ==
  \E p \in Presets : RangeKey(p.from, p.to) = e \o <<" ", "t", "o", " ", "n", "o", "w">>

\* The three outcomes of describeTextRange(expr).
IsCatalogHit(expr, opt) ==
  /\ HasPreset(Normalised(expr))
  /\ opt \in Presets

IsPatternHit(expr, opt) ==
  LET e == Normalised(expr)
  IN  /\ IsCanonical(e)
      /\ ~InvalidOf(opt)
      /\ opt.display # <<>>
      /\ \E n \in 0..99, u \in DOMAIN spans :
           /\ opt.display =
                (IF LeadingPlus(expr) THEN <<"N", "e", "x", "t", " ">> ELSE <<"L", "a", "s", "t", " ">>)
                  \o NatToString(n) \o <<" ">> \o spans[u].display
                  \o (IF n > 1 THEN <<"s">> ELSE <<>>)
           /\ e[Len(e)] = u
           /\ DigitsToNat(SubSeq(e, 5, Len(e) - 1)) = n
      /\ IF LeadingPlus(expr) THEN opt.from = NowStr /\ opt.to = e
                              ELSE opt.from = e /\ opt.to = NowStr

IsInvalidOutcome(opt) ==
  InvalidOf(opt) /\ opt.display = RangeKey(opt.from, opt.to)

\* ---------------------------------------------------------------- C6
\* C6: describeTextRange of an expression without a preset that is not
\* exactly now[+-]<integer><unit>, such as "now-3d/d", is invalid with the
\* display "{from} to {to}" ("now-3d/d to now").
C6_NonCanonicalIsInvalid ==
  (op = "describeTextRange" /\ ~HasPreset(Normalised(arg[1])) /\ ~IsCanonical(Normalised(arg[1]))) =>
    /\ IsInvalidOutcome(res.value)
    /\ arg = <<<<"n", "o", "w", "-", "3", "d", "/", "d">>>> => res.value.display = <<"n", "o", "w", "-", "3", "d", "/", "d", " ", "t", "o", " ", "n", "o", "w">>

\* ---------------------------------------------------------------- C7
Fallback_secondsToHms == <<"l", "e", "s", "s", " ", "t", "h", "a", "n", " ", "a", " ", "m", "i", "l", "l", "i", "s", "e", "c", "o", "n", "d">>

\* The count of each unit in a duration, largest unit first: floor(duration /
\* unit).  The count of milliseconds is computed only below one second.
HmsUnits == <<<<"y">>, <<"d">>, <<"h">>, <<"m">>, <<"s">>, <<"m", "s">>>>

HmsCount(seconds, j) ==
  CASE j = 1 -> seconds.s \div 31536000
    [] j = 2 -> seconds.s \div 86400
    [] j = 3 -> seconds.s \div 3600
    [] j = 4 -> seconds.s \div 60
    [] j = 5 -> seconds.s
    [] j = 6 -> IF seconds.s = 0 THEN seconds.us \div 1000 ELSE 1000

\* C7: for a non-negative duration secondsToHms returns exactly one token
\* <count><unit>, of the largest unit among y, d, h, m, s, ms whose count is
\* not zero (3661 s gives "1h"), and the fallback "less than a millisecond"
\* exactly when the duration is below one millisecond.
C7_SecondsToHmsLargestUnit ==
  op = "secondsToHms" =>
    LET seconds == arg[1]
        nonzero == {j \in 1..6 : HmsCount(seconds, j) # 0}
        first == CHOOSE j \in nonzero : \A l \in nonzero : j <= l
    IN  /\ res.value = (IF nonzero = {} THEN Fallback_secondsToHms
                        ELSE NatToString(HmsCount(seconds, first)) \o HmsUnits[first])
        /\ (res.value = Fallback_secondsToHms) <=> (seconds.s = 0 /\ seconds.us < 1000)
        /\ res.value # Fallback_secondsToHms =>
             \E n \in 1..Len(res.value) :
               /\ \A k \in 1..n : IsDigit(res.value[k])
               /\ SubSeq(res.value, n + 1, Len(res.value)) \in SeqsOf(HmsUnits)
        /\ seconds = Seconds(3661, 0) => res.value = <<"1", "h">>

\* C7 witness: 3661 s has been formatted as "1h".
C7_Witness ==
  op = "secondsToHms" /\ arg = <<Seconds(3661, 0)>> /\ res = Return(<<"1", "h">>)

\* ---------------------------------------------------------------- C8
Fallback_msRangeToTimeString == <<"l", "e", "s", "s", " ", "t", "h", "a", "n", " ", "1", "s", "e", "c">>

RECURSIVE JoinWithSpace(_)
JoinWithSpace(tokens) ==
  IF tokens = <<>> THEN <<>>
  ELSE IF Len(tokens) = 1 THEN tokens[1]
  ELSE tokens[1] \o <<" ">> \o JoinWithSpace(Tail(tokens))

\* C8: msRangeToTimeString rounds a non-negative range to whole seconds and
\* returns the non-zero components among <h>h, <m>min, <s>sec (m and s in
\* 0..59) in that order, joined by exactly one space, without leading or
\* trailing space (5400000 gives "1h 30min"); the fallback "less than 1sec"
\* exactly when all three are zero.
C8_MsRangeComponents ==
  op = "msRangeToTimeString" =>
    LET rangeMs == arg[1]
        total == IF rangeMs.u >= 500 THEN rangeMs.k + 1 ELSE rangeMs.k
        h == total \div 3600
        m == (total % 3600) \div 60
        s == total % 60
        tokens == (IF h # 0 THEN <<NatToString(h) \o <<"h">>>> ELSE <<>>)
                    \o (IF m # 0 THEN <<NatToString(m) \o <<"m", "i", "n">>>> ELSE <<>>)
                    \o (IF s # 0 THEN <<NatToString(s) \o <<"s", "e", "c">>>> ELSE <<>>)
        out == res.value
    IN  /\ h * 3600 + m * 60 + s = total
        /\ out = (IF tokens = <<>> THEN Fallback_msRangeToTimeString
                  ELSE JoinWithSpace(tokens))
        /\ (out = Fallback_msRangeToTimeString) <=> (h = 0 /\ m = 0 /\ s = 0)
        /\ out # Fallback_msRangeToTimeString =>
             /\ out[1] # " " /\ out[Len(out)] # " "
             /\ \A k \in 1..(Len(out) - 1) : ~(out[k] = " " /\ out[k + 1] = " ")
             /\ Cardinality({k \in DOMAIN out : out[k] = " "}) = Len(tokens) - 1
        /\ rangeMs = N(5400, 0) => out = <<"1", "h", " ", "3", "0", "m", "i", "n">>

\* C8 witness: a range with hours and seconds but no minutes has been
\* formatted, as "<h>h <s>sec".
C8_Witness ==
  op = "msRangeToTimeString" /\ arg = <<N(3601, 500)>> /\ res = Return(<<"1", "h", " ", "2", "s", "e", "c">>)

\* ---------------------------------------------------------------- C9
\* The frames the module load has put into rangeIndex so far.
FramesPut ==
  IF pc = "rangeOptions" THEN i - 1
  ELSE IF pc = "hiddenRangeOptions" THEN Len(rangeOptions) + i - 1
  ELSE Len(rangeOptions) + Len(hiddenRangeOptions)

\* C9: every preset has its own "{from} to {to}" key, so no entry of
\* rangeIndex is overwritten while it is built; for every preset p,
\* describeTimeRange({from: p.from, to: p.to}) is p.display, and for every
\* preset p with to = "now", describeTextRange(p.from) is p; no operation
\* changes rangeIndex once it is built.
C9_PresetKeysUnique ==
  /\ Cardinality(DOMAIN rangeIndex) = FramesPut
  /\ pc = "ready" =>
       \A p \in Presets :
         /\ RangeKey(p.from, p.to) \in DOMAIN rangeIndex
         /\ rangeIndex[RangeKey(p.from, p.to)] = p
         /\ describeTimeRange([from |-> p.from, to |-> p.to]) = p.display
         /\ p.to = NowStr => describeTextRange(p.from) = p
  /\ (op = "describeTimeRange" /\ \E p \in Presets : p.from = arg[1].from /\ p.to = arg[1].to) =>
       \E p \in Presets : p.from = arg[1].from /\ p.to = arg[1].to /\ res.value = p.display
  /\ (op = "describeTextRange" /\ \E p \in Presets : p.from = arg[1] /\ p.to = NowStr) =>
       (res.value \in Presets /\ res.value.from = arg[1] /\ res.value.to = NowStr)

\* C9 witness: describeTextRange has returned the preset of "now-6h" after
\* the index was built and calls were made.
C9_Witness ==
  /\ pc = "ready"
  /\ op = "describeTextRange"
  /\ arg = <<<<"n", "o", "w", "-", "6", "h">>>>
  /\ res.value = [from |-> <<"n", "o", "w", "-", "6", "h">>, to |-> NowStr, display |-> <<"Ú", "l", "t", "i", "m", "a", "s", " ", "6", " ", "h", "o", "r", "a", "s">>]
  /\ Cardinality(DOMAIN rangeIndex) = 53

\* ---------------------------------------------------------------- C10
\* C10: every result of describeTextRange is a catalog preset, a pattern hit
\* (not invalid, display "Last N <unit-name>" or "Next N <unit-name>" with
\* "s" added exactly when N > 1) or invalid with display "{from} to {to}";
\* no display is empty; and isValidTimeSpan is true of a string not starting
\* with "$" or "+$" only in the first two outcomes.
C10_ThreeOutcomes ==
  /\ op = "describeTextRange" =>
       /\ \/ IsCatalogHit(arg[1], res.value)
          \/ IsPatternHit(arg[1], res.value)
          \/ IsInvalidOutcome(res.value)
       /\ res.value.display # <<>>
  /\ (op = "isValidTimeSpan" /\ res.value = TRUE
        /\ IndexOf(arg[1], <<"$">>) # 0 /\ IndexOf(arg[1], <<"+", "$">>) # 0) =>
       \/ IsCatalogHit(arg[1], describeTextRange(arg[1]))
       \/ IsPatternHit(arg[1], describeTextRange(arg[1]))

====
